---- MODULE Spec2Model ----
(***************************************************************************)
(* The team-research graph of nfl_agent/src/tools/article_fetcher: the     *)
(* LangGraph state (TeamArticleQueryState), its five nodes, its two        *)
(* routing functions and the merge combine_team_info_logic.                *)
(*                                                                         *)
(* Python values are modelled as follows.                                  *)
(*   Optional[T]   None is <<>>, a present value v is <<v>>                *)
(*   str           a TLA+ string (Len and \o act on characters)            *)
(*   List[str]     a sequence of strings                                   *)
(*   TeamInfo      a record over Fields; name is a plain string, the five   *)
(*                 Optional fields are wrapped as above                    *)
(***************************************************************************)
EXTENDS Integers, Sequences, FiniteSets, TLC

VARIABLES
    node,                \* the graph node about to run, or "END" / "ERROR"
    team_info,           \* state["team_info"]: Optional[TeamInfo]
    articles,            \* state["articles"]: Optional[List[ESPNSearchArticle]]
    selected_article,    \* state["selected_article"]: Optional[ESPNSearchArticle]
    article_content,     \* state["article_content"]: Optional[str]
    new_team_info,       \* state["new_team_info"]: Optional[TeamInfo]
    articles_read_count, \* state["articles_read_count"]: int
    fetched,             \* history: article id -> calls of fetch_article_content
    summarized,          \* history: article id -> calls of summarize_article_content
    repeated_fact,       \* history: the summariser has returned a list holding a string twice
    ranked,              \* history: the last result.article_id of the relevance model
    partials,            \* history: the summariser's results in order (None: not recorded)
    other,               \* the state of a second invocation of search_nfl, as a record
    call,                \* the retried model call in progress or last made: its attempts and waits
    steps,               \* history: the node executions of this invocation
    listed,              \* history: the calls of fetch_articles_for_team
    page,                \* what the selected article's URL gives, and the node's max_length
    outcome              \* how the invocation stands: "running", a return or a raise

vars == <<node, team_info, articles, selected_article, article_content,
          new_team_info, articles_read_count, fetched, summarized, repeated_fact,
          ranked, partials, other, call, steps, listed, page, outcome>>

\* what no node of this invocation writes
outside == <<other, page>>

---------------------------------------------------------------------------
(* Optional values *)

None == <<>>

Some(v) == <<v>>

Val(o) == o[1]

---------------------------------------------------------------------------
(* Bounds of the model *)

\* longest article list the source returns
MaxPool == 12

\* the ranker answers with the id of one of the first MaxRankChoice candidates
\* (or with an id that no candidate carries)
MaxRankChoice == 2

\* the extractor's outputs are limited to those that keep the accumulated
\* coaching_summary / name within these many characters
MaxSummaryLen == 4

MaxNameLen == 13

\* how often the test harness re-applies node_combine_team_info to its result
MaxReapply == 2

\* the longest extracted text made of every combination of characters
MaxTextLen == 4

\* the largest max_length below the default
MaxLimit == 3

---------------------------------------------------------------------------
(* Program constants *)

MIN_ARTICLES_TO_READ == 5

MAX_ARTICLES_TO_READ == 10

---------------------------------------------------------------------------
(* TeamInfo *)

StrFields == {"name", "coaching_summary"}

ListFields == {"injuries", "strengths", "problem_areas", "relevant_players"}

Fields == StrFields \cup ListFields

TeamInfo(n, cs, inj, st, pa, rp) ==
    [name |-> n, coaching_summary |-> cs, injuries |-> inj,
     strengths |-> st, problem_areas |-> pa, relevant_players |-> rp]

\* TeamInfo(name=n): every Optional field at its default, None
NoFacts(n) == TeamInfo(n, None, None, None, None, None)

\* TeamInfo.model_dump(): every key with its value (None for an absent one)
model_dump(info) ==
    [key \in Fields |-> IF key = "name" THEN Some(info.name) ELSE info[key]]

\* TeamInfo.model_validate(dict): the dict's values, name being a required str
model_validate(d) ==
    [key \in Fields |-> IF key = "name" THEN Val(d[key]) ELSE d[key]]

---------------------------------------------------------------------------
(* combine_team_info_logic and its helpers (utils.py) *)

\* faulty variant: only None counts as empty
is_empty_none_only(value) == value = None

\* _is_empty(value): None, or a list or str of length 0
is_empty(value) == value = None \/ Len(Val(value)) = 0

\* Python's `item in old_value` on a list: some element equals item
InList(item, list) == \E i \in 1..Len(list) : list[i] = item

\* [item for item in new_value if item not in old_value]
RECURSIVE ItemsNotIn(_, _)
ItemsNotIn(new_value, old_value) ==
    IF new_value = <<>> THEN <<>>
    ELSE (IF InList(Head(new_value), old_value) THEN <<>> ELSE <<Head(new_value)>>)
         \o ItemsNotIn(Tail(new_value), old_value)

\* faulty variant: the new list appended whole
combine_lists_no_dedup(old_value, new_value) == old_value \o new_value

\* the list branch: old_value + [items of new_value not in old_value]
combine_lists(old_value, new_value) == old_value \o ItemsNotIn(new_value, old_value)

\* Python's `a in b` on two str
IsSubstring(a, b) ==
    \/ Len(a) = 0
    \/ \E i \in 1..(Len(b) - Len(a) + 1) : SubSeq(b, i, i + Len(a) - 1) = a

\* faulty variant: the new text appended unless the old text contains it
combine_strings_unless_contained(old_value, new_value) ==
    IF ~IsSubstring(new_value, old_value)
    THEN old_value \o "\n\n" \o new_value ELSE old_value

\* the str branch: f"{old_value}\n\n{new_value}" unless the two are equal
combine_strings(old_value, new_value) ==
    IF new_value # old_value THEN old_value \o "\n\n" \o new_value ELSE old_value

\* faulty variant: a non-empty new value replaces the old one
combined_value_overwriting(key, old_value, new_value) ==
    IF is_empty(new_value) THEN old_value ELSE new_value

\* one turn of the loop over new_team_info_dict.items(): the value
\* old_team_info_dict[key] holds after it (isinstance is decided by the key,
\* TeamInfo's fields being typed)
combined_value(key, old_value, new_value) ==
    IF is_empty(new_value) THEN old_value
    ELSE IF is_empty(old_value) THEN new_value
    ELSE IF key \in ListFields
         THEN Some(combine_lists(Val(old_value), Val(new_value)))
         ELSE Some(combine_strings(Val(old_value), Val(new_value)))

\* the dict loop and model_validate, for an old_team_info that is not None
merged_team_info(old_info, new_info) ==
    LET old_team_info_dict == model_dump(old_info)
        new_team_info_dict == model_dump(new_info)
    IN  model_validate([key \in Fields |->
            combined_value(key, old_team_info_dict[key], new_team_info_dict[key])])

\* faulty variant: no early return: a missing old profile is merged as a blank one
combine_team_info_logic_from_blank(old_info, new_info) ==
    merged_team_info(IF old_info = None THEN NoFacts(new_info.name) ELSE Val(old_info),
                     new_info)

\* old_info: Optional[TeamInfo], new_info: TeamInfo; returns a TeamInfo
combine_team_info_logic(old_info, new_info) ==
    IF old_info = None THEN new_info ELSE merged_team_info(Val(old_info), new_info)

---------------------------------------------------------------------------
(* Routing functions (nodes.py) *)

should_fetch_article(selected) == IF selected = None THEN "skip" ELSE "fetch"

\* faulty variant: the minimum is not checked
should_continue_without_minimum(count, info) ==
    IF count > MAX_ARTICLES_TO_READ THEN "end"
    ELSE IF info = None THEN "continue"
    ELSE IF Val(info).coaching_summary = None THEN "continue"
    ELSE IF \E f \in ListFields : Val(info)[f] = None \/ Len(Val(Val(info)[f])) = 0
         THEN "continue"
    ELSE "end"

\* faulty variant: the maximum is not checked
should_continue_without_cap(count, info) ==
    IF count < MIN_ARTICLES_TO_READ THEN "continue"
    ELSE IF info = None THEN "continue"
    ELSE IF Val(info).coaching_summary = None THEN "continue"
    ELSE IF \E f \in ListFields : Val(info)[f] = None \/ Len(Val(Val(info)[f])) = 0
         THEN "continue"
    ELSE "end"

should_continue(count, info) ==
    IF count < MIN_ARTICLES_TO_READ THEN "continue"
    ELSE IF count > MAX_ARTICLES_TO_READ THEN "end"
    ELSE IF info = None THEN "continue"
    ELSE IF Val(info).coaching_summary = None THEN "continue"
    ELSE IF Val(info).injuries = None \/ Len(Val(Val(info).injuries)) = 0 THEN "continue"
    ELSE IF Val(info).strengths = None \/ Len(Val(Val(info).strengths)) = 0 THEN "continue"
    ELSE IF Val(info).problem_areas = None \/ Len(Val(Val(info).problem_areas)) = 0
         THEN "continue"
    ELSE IF Val(info).relevant_players = None \/ Len(Val(Val(info).relevant_players)) = 0
         THEN "continue"
    ELSE "end"

---------------------------------------------------------------------------
(* The external collaborators: what they may answer *)

Min(a, b) == IF a < b THEN a ELSE b

\* ESPNSearchArticle, reduced to the fields the graph reads
Article(i, h) == [id |-> i, headline |-> h]

ArticleIds == 1..MaxPool

\* an id that no article of any list carries
UnknownId == MaxPool + 1

\* n articles, most recent (highest id) first
DescPool(n) == [i \in 1..n |-> Article(n + 1 - i, "story")]

\* the same list with its newest article listed a second time
RepostPool(n) == <<Article(n, "story"), Article(n, "repost")>> \o DescPool(n - 1)

\* client.search_nfl(team_id).articles
SourceResults ==
    {DescPool(n) : n \in {0, 1, MIN_ARTICLES_TO_READ + 1, MaxPool}}
        \cup {RepostPool(n) : n \in 1..MaxRankChoice}

\* result.article_id of the relevance model
RankerAnswers(arts) ==
    {arts[i].id : i \in 1..Min(MaxRankChoice, Len(arts))} \cup {UnknownId}

\* what fetch_article_content returns
ArticleTexts == {"article text"}

\* result of the summariser model: a TeamInfo that reports nothing, one kind of
\* fact, or every kind
ExtractorOutputs ==
    {NoFacts("Eagles"), NoFacts("Birds")}
        \cup {[NoFacts("Eagles") EXCEPT !.coaching_summary = Some(cs)] : cs \in {"", "X"}}
        \cup {[NoFacts("Eagles") EXCEPT !.injuries = Some(l)] : l \in {<<>>, <<"B", "B">>, <<"A", "B">>}}
        \cup {[NoFacts("Eagles") EXCEPT !.strengths = Some(<<"Offense">>)],
              TeamInfo("Eagles", Some("Y"), Some(<<"A">>), Some(<<"Offense">>),
                       Some(<<"Defense">>), Some(<<"QB1">>)),
              TeamInfo("Eagles", Some(""), Some(<<"A">>), Some(<<"Offense">>),
                       Some(<<"Defense">>), Some(<<"QB1">>))}

\* some list of the TeamInfo holds a string twice
HasRepeatedFact(info) ==
    \E f \in ListFields :
        /\ info[f] # None
        /\ \E i \in 1..Len(Val(info[f])) : \E j \in 1..Len(Val(info[f])) :
               i # j /\ Val(info[f])[i] = Val(info[f])[j]

\* the bound on the accumulated texts
WithinTextBounds(info) ==
    /\ Len(info.name) <= MaxNameLen
    /\ info.coaching_summary # None => Len(Val(info.coaching_summary)) <= MaxSummaryLen

---------------------------------------------------------------------------
(* fetch_article_content and _clean_article_text (utils.py), on what
   trafilatura extracted from the page *)

Max(a, b) == IF a > b THEN a ELSE b

\* text[i - 1] of Python, as a text of one character
Char(text, i) == SubSeq(text, i, i)

\* text[i - 1:]
From(text, i) == SubSeq(text, i, Len(text))

\* text.startswith(literal)
starts_with(text, literal) ==
    /\ Len(text) >= Len(literal)
    /\ SubSeq(text, 1, Len(literal)) = literal

\* how many copies of the character c the text begins with
RECURSIVE RunLen(_, _)
RunLen(text, c) ==
    IF Len(text) > 0 /\ Char(text, 1) = c THEN 1 + RunLen(From(text, 2), c) ELSE 0

\* re.sub of c{least,} by `by`: every maximal run of at least `least` copies
\* of c is replaced, a shorter run is kept
RECURSIVE re_sub_runs(_, _, _, _)
re_sub_runs(text, c, least, by) ==
    IF Len(text) = 0 THEN ""
    ELSE LET n == RunLen(text, c)
         IN  IF n >= least THEN by \o re_sub_runs(From(text, n + 1), c, least, by)
             ELSE SubSeq(text, 1, Max(n, 1))
                      \o re_sub_runs(From(text, Max(n, 1) + 1), c, least, by)

ascii_uppercase == "ABCDEFGHIJKLMNOPQRSTUVWXYZ"

ascii_lowercase == "abcdefghijklmnopqrstuvwxyz"

\* the character as re.IGNORECASE compares it
lower_char(c) ==
    IF \E i \in 1..Len(ascii_uppercase) : Char(ascii_uppercase, i) = c
    THEN Char(ascii_lowercase, CHOOSE i \in 1..Len(ascii_uppercase) :
                                   Char(ascii_uppercase, i) = c)
    ELSE c

RECURSIVE lower(_)
lower(text) ==
    IF Len(text) = 0 THEN "" ELSE lower_char(Char(text, 1)) \o lower(From(text, 2))

\* boilerplate_patterns, each as its literals in lower case; between two
\* literals of a pattern stands .*?
boilerplate_patterns ==
    << <<"share this article", "\n">>,
       <<"follow", "on twitter", "\n">>,
       <<"espn+", "subscribe", "\n">>,
       <<"advertisement\n">> >>

\* the length of the match of a pattern at the start of the text, or -1:
\* match_here when the text has to begin with the pattern's first literal,
\* match_gap when .*? comes first, which takes as few characters as the rest
\* of the pattern allows and no newline
RECURSIVE match_here(_, _), match_gap(_, _)
match_here(low, literals) ==
    IF literals = <<>> THEN 0
    ELSE IF ~starts_with(low, literals[1]) THEN -1
    ELSE LET rest == match_gap(From(low, Len(literals[1]) + 1), Tail(literals))
         IN  IF rest = -1 THEN -1 ELSE Len(literals[1]) + rest

match_gap(low, literals) ==
    IF literals = <<>> THEN 0
    ELSE LET skips == {k \in 0..Len(low) :
                          /\ \A j \in 1..k : Char(low, j) # "\n"
                          /\ match_here(From(low, k + 1), literals) # -1}
         IN  IF skips = {} THEN -1
             ELSE LET k == CHOOSE k \in skips : \A m \in skips : k <= m
                  IN  k + match_here(From(low, k + 1), literals)

\* re.sub(pattern, "", text, flags=re.IGNORECASE): the matches are taken from
\* left to right and do not overlap; low is the text in lower case
RECURSIVE re_sub_pattern(_, _, _)
re_sub_pattern(text, low, literals) ==
    IF Len(text) = 0 THEN ""
    ELSE LET m == match_here(low, literals)
         IN  IF m > 0
             THEN re_sub_pattern(From(text, m + 1), From(low, m + 1), literals)
             ELSE Char(text, 1)
                      \o re_sub_pattern(From(text, 2), From(low, 2), literals)

\* for pattern in boilerplate_patterns: text = re.sub(pattern, "", text, ...),
\* from the i-th pattern on
RECURSIVE remove_boilerplate(_, _)
remove_boilerplate(text, i) ==
    IF i > Len(boilerplate_patterns) THEN text
    ELSE remove_boilerplate(
             re_sub_pattern(text, lower(text), boilerplate_patterns[i]), i + 1)

\* the characters str.strip() removes
whitespace == {" ", "\n", "\t", "\r", "\f"}

RECURSIVE lstrip(_)
lstrip(text) ==
    IF Len(text) > 0 /\ Char(text, 1) \in whitespace THEN lstrip(From(text, 2))
    ELSE text

RECURSIVE rstrip(_)
rstrip(text) ==
    IF Len(text) > 0 /\ Char(text, Len(text)) \in whitespace
    THEN rstrip(SubSeq(text, 1, Len(text) - 1))
    ELSE text

\* text.strip()
strip(text) == rstrip(lstrip(text))

\* _clean_article_text
clean_article_text(text) ==
    strip(re_sub_runs(remove_boilerplate(re_sub_runs(text, "\n", 3, "\n\n"), 1),
                      " ", 2, " "))

truncation_marker == "\n\n[Article truncated for context management]"

\* faulty variant: a text of exactly max_length characters is cut as well
fetch_article_content_cutting_at_limit(extracted, max_length) ==
    IF extracted = None \/ Len(Val(extracted)) = 0 THEN <<"raise", "ValueError">>
    ELSE LET content == clean_article_text(Val(extracted))
         IN  <<"return", IF Len(content) >= max_length
                         THEN SubSeq(content, 1, max_length) \o truncation_marker
                         ELSE content>>

\* fetch_article_content once the page is downloaded and trafilatura has
\* answered `extracted`: what it returns, or the exception it raises
fetch_article_content(extracted, max_length) ==
    IF extracted = None \/ Len(Val(extracted)) = 0 THEN <<"raise", "ValueError">>
    ELSE LET content == clean_article_text(Val(extracted))
         IN  <<"return", IF Len(content) > max_length
                         THEN SubSeq(content, 1, max_length) \o truncation_marker
                         ELSE content>>

---------------------------------------------------------------------------
(* The graph (tool.py) and its nodes (nodes.py) *)

\* no model call has been made yet
no_call == [attempt_number |-> 0, sleeps |-> <<>>, waiting |-> FALSE]

\* the number of the attempt a model call is at: the first, or the one after
\* the wait
this_attempt == IF call.waiting THEN call.attempt_number + 1 ELSE 1

\* the waits of the model call so far
this_sleeps == IF call.waiting THEN call.sleeps ELSE <<>>

\* the model call is over: the attempt returned, or raised what is not retried
finished_call ==
    [attempt_number |-> this_attempt, sleeps |-> this_sleeps, waiting |-> FALSE]

\* node_fetch_article_content's default limit
DEFAULT_MAX_LENGTH == 5000

\* the number of steps search_nfl allows the graph: {"recursion_limit": 100}
recursion_limit == 100

\* a page trafilatura extracts a short text from, read with the default limit
default_page == [extracted |-> Some("article text"), max_length |-> DEFAULT_MAX_LENGTH]

\* fetch_article_content on default_page, computed once
default_content == fetch_article_content(default_page.extracted, default_page.max_length)

\* fetch_article_content(state["selected_article"].url, max_length) on the page
\* the url leads to
fetched_content ==
    IF page = default_page THEN default_content
    ELSE fetch_article_content(page.extracted, page.max_length)

\* the state search_nfl hands to graph.invoke, as a record: the node about to
\* run, the keys of the state, the summariser's results so far, and how the
\* invocation stands
initial_state ==
    [node |-> "get_articles", team_info |-> None, articles |-> None,
     selected_article |-> None, article_content |-> None, new_team_info |-> None,
     articles_read_count |-> 0, partials |-> <<>>, outcome |-> "running"]

Init ==
    /\ node = "get_articles"
    /\ team_info = None
    /\ articles = None
    /\ selected_article = None
    /\ article_content = None
    /\ new_team_info = None
    /\ articles_read_count = 0
    /\ fetched = [i \in ArticleIds |-> 0]
    /\ summarized = [i \in ArticleIds |-> 0]
    /\ repeated_fact = FALSE
    /\ ranked = None
    /\ partials = None
    /\ other = initial_state
    /\ call = no_call
    /\ steps = 0
    /\ listed = 0
    /\ page = default_page
    /\ outcome = "running"

\* faulty variant: the exception is caught and the state so far is returned
Raise_returning_partial(what) ==
    /\ node' = "END"
    /\ outcome' = "returned"
    /\ UNCHANGED <<team_info, articles, selected_article, article_content,
                   new_team_info, articles_read_count, fetched, summarized, repeated_fact,
                   partials, outside>>
    /\ steps' = steps + 1

\* an exception leaves the node and graph.invoke: no state update is applied
Raise(what) ==
    /\ node' = "ERROR"
    /\ outcome' = what
    /\ UNCHANGED <<team_info, articles, selected_article, article_content,
                   new_team_info, articles_read_count, fetched, summarized, repeated_fact,
                   partials, outside>>
    /\ steps' = steps + 1

\* faulty variant: an empty list counts as no list, and the source is asked
GetArticlesKept_unless_empty ==
    /\ node = "get_articles"
    /\ articles # None
    /\ IF Len(Val(articles)) = 0
       THEN /\ \E found \in SourceResults : articles' = Some(found)
            /\ listed' = listed + 1
       ELSE UNCHANGED <<articles, listed>>
    /\ node' = "select_article"
    /\ UNCHANGED <<team_info, selected_article, article_content,
                   new_team_info, articles_read_count, fetched, summarized, repeated_fact,
                   ranked, partials, outside, call, outcome>>
    /\ steps' = steps + 1

\* node_get_list_of_articles, state["articles"] already set
GetArticlesKept ==
    /\ node = "get_articles"
    /\ articles # None
    /\ node' = "select_article"
    /\ UNCHANGED <<team_info, articles, selected_article, article_content,
                   new_team_info, articles_read_count, fetched, summarized, repeated_fact,
                   ranked, partials, outside, call, listed, outcome>>
    /\ steps' = steps + 1

\* node_get_list_of_articles calling fetch_articles_for_team
GetArticlesFetched ==
    /\ node = "get_articles"
    /\ articles = None
    /\ \E found \in SourceResults : articles' = Some(found)
    /\ node' = "select_article"
    /\ UNCHANGED <<team_info, selected_article, article_content,
                   new_team_info, articles_read_count, fetched, summarized, repeated_fact,
                   ranked, partials, outside, call, outcome>>
    /\ listed' = listed + 1
    /\ steps' = steps + 1

\* node_get_list_of_articles when client.search_nfl raises
GetArticlesFails ==
    /\ node = "get_articles"
    /\ articles = None
    /\ Raise("source_error")
    /\ listed' = listed + 1
    /\ UNCHANGED <<ranked, call>>

\* faulty variant: only the selected article itself is dropped
remaining_articles_without_selected(arts, selected) ==
    SelectSeq(arts, LAMBDA a : a # selected)

\* [a for a in state["articles"] if a.id != selected_article.id]
remaining_articles(arts, selected) == SelectSeq(arts, LAMBDA a : a.id # selected.id)

\* faulty variant: the last article carrying the id
LastWithId(arts, article_id) ==
    arts[CHOOSE i \in 1..Len(arts) :
            /\ arts[i].id = article_id
            /\ \A j \in (i + 1)..Len(arts) : arts[j].id # article_id]

\* next(article for article in articles if article.id == article_id)
FirstWithId(arts, article_id) ==
    arts[CHOOSE i \in 1..Len(arts) :
            /\ arts[i].id = article_id
            /\ \A j \in 1..(i - 1) : arts[j].id # article_id]

\* what a call gives back: a value, or an exception
Returned(v) == <<"return", v>>

Raised(e) == <<"raise", e>>

\* faulty variant: an answer matching no candidate selects the first candidate
select_relevant_article_or_first(arts, article_id) ==
    IF \E i \in 1..Len(arts) : arts[i].id = article_id
    THEN Returned(Some(FirstWithId(arts, article_id)))
    ELSE IF Len(arts) = 0 THEN Raised("StopIteration")
    ELSE Returned(Some(arts[1]))

\* faulty variant: an answer matching no candidate gives None
select_relevant_article_or_none(arts, article_id) ==
    IF \E i \in 1..Len(arts) : arts[i].id = article_id
    THEN Returned(Some(FirstWithId(arts, article_id)))
    ELSE Returned(None)

\* select_relevant_article once the relevance model has answered article_id
select_relevant_article(arts, article_id) ==
    IF \E i \in 1..Len(arts) : arts[i].id = article_id
    THEN Returned(Some(FirstWithId(arts, article_id)))
    ELSE Raised("StopIteration")

\* node_get_article_relevance, then should_fetch_article
SelectArticle ==
    /\ node = "select_article"
    /\ \E article_id \in RankerAnswers(Val(articles)) :
         LET result == select_relevant_article(Val(articles), article_id)
         IN  /\ result[1] = "return"
             /\ ranked' = Some(article_id)
             /\ selected_article' = result[2]
             /\ articles' = IF result[2] # None
                            THEN Some(remaining_articles(Val(articles), Val(result[2])))
                            ELSE articles
             /\ IF should_fetch_article(result[2]) = "skip"
                THEN node' = "END" /\ outcome' = "returned"
                ELSE node' = "fetch_content" /\ outcome' = outcome
    /\ UNCHANGED <<team_info, article_content, new_team_info, articles_read_count,
                   fetched, summarized, repeated_fact, partials, outside, listed>>
    /\ call' = finished_call
    /\ steps' = steps + 1

\* node_get_article_relevance when no candidate carries the id the model
\* answered: next() raises StopIteration
SelectArticleNoMatch ==
    /\ node = "select_article"
    /\ \E article_id \in RankerAnswers(Val(articles)) :
         LET result == select_relevant_article(Val(articles), article_id)
         IN  /\ result[1] = "raise"
             /\ ranked' = Some(article_id)
             /\ Raise(result[2])
    /\ call' = finished_call
    /\ UNCHANGED listed

\* node_get_article_relevance when the relevance model's call raises
SelectArticleFails ==
    /\ node = "select_article"
    /\ Raise("ranker_error")
    /\ call' = finished_call
    /\ UNCHANGED <<ranked, listed>>

\* node_fetch_article_content
FetchContent ==
    /\ node = "fetch_content"
    /\ fetched_content[1] = "return"
    /\ article_content' = Some(fetched_content[2])
    /\ fetched' = [fetched EXCEPT ![Val(selected_article).id] = @ + 1]
    /\ node' = "summarize_content"
    /\ UNCHANGED <<team_info, articles, selected_article, new_team_info,
                   articles_read_count, summarized, repeated_fact, ranked, partials,
                   outside, call, listed, outcome>>
    /\ steps' = steps + 1

\* node_fetch_article_content raising: the download failed, or nothing was
\* extracted from the page
FetchContentFails ==
    /\ node = "fetch_content"
    /\ node' = "ERROR"
    /\ outcome' \in {"fetch_error"} \cup (IF fetched_content[1] = "raise"
                                          THEN {fetched_content[2]} ELSE {})
    /\ fetched' = [fetched EXCEPT ![Val(selected_article).id] = @ + 1]
    /\ UNCHANGED <<team_info, articles, selected_article, article_content,
                   new_team_info, articles_read_count, summarized, repeated_fact, ranked,
                   partials, outside, call, listed>>
    /\ steps' = steps + 1

\* node_summarize_article_content
SummarizeContent ==
    /\ node = "summarize_content"
    /\ \E result \in ExtractorOutputs :
         /\ WithinTextBounds(combine_team_info_logic(team_info, result))
         /\ new_team_info' = Some(result)
         /\ repeated_fact' = (repeated_fact \/ HasRepeatedFact(result))
         /\ partials' = IF partials = None THEN None
                        ELSE Some(Append(Val(partials), result))
    /\ summarized' = [summarized EXCEPT ![Val(selected_article).id] = @ + 1]
    /\ node' = "combine_team_info"
    /\ UNCHANGED <<team_info, articles, selected_article, article_content,
                   articles_read_count, fetched, ranked, outside, listed, outcome>>
    /\ call' = finished_call
    /\ steps' = steps + 1

\* summarize_article_content raising
SummarizeContentFails ==
    /\ node = "summarize_content"
    /\ node' = "ERROR"
    /\ outcome' = "extract_error"
    /\ summarized' = [summarized EXCEPT ![Val(selected_article).id] = @ + 1]
    /\ UNCHANGED <<team_info, articles, selected_article, article_content,
                   new_team_info, articles_read_count, fetched, repeated_fact, ranked,
                   partials, outside, listed>>
    /\ call' = finished_call
    /\ steps' = steps + 1

\* faulty variant: an article is counted only when it changed the profile
CombineUpdate_counting_new_facts ==
    /\ team_info' = Some(combine_team_info_logic(team_info, Val(new_team_info)))
    /\ articles_read_count' =
           IF team_info' = team_info THEN articles_read_count ELSE articles_read_count + 1

\* faulty variant: the accumulated profile is merged into the new one
CombineUpdate_new_first ==
    /\ team_info' = IF team_info = None THEN new_team_info
                    ELSE Some(combine_team_info_logic(new_team_info, Val(team_info)))
    /\ articles_read_count' = articles_read_count + 1

\* faulty variant: the lists of the profile are replaced by the merged ones,
\* its name and summary are not
CombineUpdate_lists_only ==
    /\ team_info' =
           IF team_info = None THEN new_team_info
           ELSE Some([f \in Fields |->
                        IF f \in ListFields
                        THEN combine_team_info_logic(team_info, Val(new_team_info))[f]
                        ELSE Val(team_info)[f]])
    /\ articles_read_count' = articles_read_count + 1

\* node_combine_team_info: the state update it returns
CombineUpdate ==
    /\ team_info' = Some(combine_team_info_logic(team_info, Val(new_team_info)))
    /\ articles_read_count' = articles_read_count + 1

\* node_combine_team_info, then should_continue
CombineTeamInfo ==
    /\ node = "combine_team_info"
    /\ CombineUpdate
    /\ IF should_continue(articles_read_count', team_info') = "continue"
       THEN node' = "get_articles" /\ outcome' = outcome
       ELSE node' = "END" /\ outcome' = "returned"
    /\ UNCHANGED <<articles, selected_article, article_content, new_team_info,
                   fetched, summarized, repeated_fact, ranked, partials, outside, call, listed>>
    /\ steps' = steps + 1

Next ==
    \/ GetArticlesKept
    \/ GetArticlesFetched
    \/ GetArticlesFails
    \/ SelectArticle
    \/ SelectArticleNoMatch
    \/ SelectArticleFails
    \/ FetchContent
    \/ FetchContentFails
    \/ SummarizeContent
    \/ SummarizeContentFails
    \/ CombineTeamInfo

Spec == Init /\ [][Next]_vars

---------------------------------------------------------------------------
(* The retry decorator of select_relevant_article and of
   summarize_article_content (tenacity): retry_if_exception_type(RateLimitError),
   wait_exponential(multiplier=1, min=2, max=60), stop_after_attempt(5).
   A rate-limited attempt is a step of its own: the node stays where it is
   while the decorator sleeps, and runs the function again. *)

\* the attempt numbers the wait is computed for
MaxWaitAttempt == 8

stop_max_attempt_number == 5

wait_multiplier == 1

wait_min == 2

wait_max == 60


RECURSIVE Pow2(_)
Pow2(n) == IF n = 0 THEN 1 ELSE 2 * Pow2(n - 1)

\* faulty variant: one attempt more is allowed
stop_after_one_more_attempt(attempt_number) == attempt_number > stop_max_attempt_number

\* stop_after_attempt(5), asked after attempt attempt_number has failed
stop_after_attempt(attempt_number) == attempt_number >= stop_max_attempt_number

\* faulty variant: the minimum is not applied
wait_exponential_without_min(attempt_number) ==
    Min(wait_multiplier * Pow2(attempt_number - 1), wait_max)

\* wait_exponential(multiplier=1, min=2, max=60): the seconds slept after
\* attempt attempt_number has failed
wait_exponential(attempt_number) ==
    Max(Max(0, wait_min), Min(wait_multiplier * Pow2(attempt_number - 1), wait_max))

\* the decorator after a RateLimitError: it sleeps and tries again
retry_call ==
    [attempt_number |-> this_attempt,
     sleeps |-> Append(this_sleeps, wait_exponential(this_attempt)),
     waiting |-> TRUE]

\* faulty variant: every second rate-limited attempt starts the count afresh
SelectRateLimited_without_count ==
    /\ node = "select_article"
    /\ call' = IF call.waiting THEN no_call
               ELSE [attempt_number |-> 1, sleeps |-> <<wait_exponential(1)>>,
                     waiting |-> TRUE]
    /\ UNCHANGED <<node, team_info, articles, selected_article, article_content,
                   new_team_info, articles_read_count, fetched, summarized, repeated_fact,
                   ranked, partials, outside, steps, listed, outcome>>

\* select_relevant_article, the relevance model raising RateLimitError
SelectRateLimited ==
    /\ node = "select_article"
    /\ IF stop_after_attempt(this_attempt)
       THEN /\ Raise("RetryError")
            /\ call' = finished_call
            /\ UNCHANGED <<ranked, listed>>
       ELSE /\ call' = retry_call
            /\ UNCHANGED <<node, team_info, articles, selected_article, article_content,
                           new_team_info, articles_read_count, fetched, summarized,
                           repeated_fact, ranked, partials, outside, steps, listed,
                           outcome>>

\* summarize_article_content, the summariser model raising RateLimitError
SummarizeRateLimited ==
    /\ node = "summarize_content"
    /\ IF stop_after_attempt(this_attempt)
       THEN /\ node' = "ERROR"
            /\ outcome' = "RetryError"
            /\ summarized' = [summarized EXCEPT ![Val(selected_article).id] = @ + 1]
            /\ call' = finished_call
            /\ steps' = steps + 1
            /\ UNCHANGED <<team_info, articles, selected_article, article_content,
                           new_team_info, articles_read_count, fetched, repeated_fact,
                           ranked, partials, outside, listed>>
       ELSE /\ call' = retry_call
            /\ UNCHANGED <<node, team_info, articles, selected_article, article_content,
                           new_team_info, articles_read_count, fetched, summarized,
                           repeated_fact, ranked, partials, outside, steps, listed,
                           outcome>>

\* the summariser reports nothing, a summary only, or every kind of fact
OrderOutputs ==
    {NoFacts("Eagles"),
     [NoFacts("Eagles") EXCEPT !.coaching_summary = Some("X")],
     TeamInfo("Eagles", Some("Y"), Some(<<"A">>), Some(<<"Offense">>),
              Some(<<"Defense">>), Some(<<"QB1">>))}

\* search_nfl with rate limiting; the source gives one article or MaxPool
RetryNext ==
    \/ GetArticlesKept
    \/ GetArticlesFetched /\ Len(Val(articles')) \in {1, MaxPool}
    \/ GetArticlesFails
    \/ SelectArticle
    \/ SelectArticleNoMatch
    \/ SelectArticleFails
    \/ SelectRateLimited
    \/ FetchContent
    \/ FetchContentFails
    \/ SummarizeContent /\ Val(new_team_info') \in OrderOutputs
    \/ SummarizeContentFails
    \/ SummarizeRateLimited
    \/ CombineTeamInfo

\* the graph runs the next node as long as there is one, and every call of
\* the source, of a model and of the fetch returns or raises
RetrySpec == Init /\ [][RetryNext]_vars /\ WF_vars(RetryNext)

---------------------------------------------------------------------------
(* The graph of create_team_article_query_graph invoked by a caller that may
   supply the candidate list in the initial state *)

SuppliedInit ==
    /\ node = "get_articles"
    /\ team_info = None
    /\ articles \in {None} \cup {Some(supplied) : supplied \in SourceResults}
    /\ selected_article = None
    /\ article_content = None
    /\ new_team_info = None
    /\ articles_read_count = 0
    /\ fetched = [i \in ArticleIds |-> 0]
    /\ summarized = [i \in ArticleIds |-> 0]
    /\ repeated_fact = FALSE
    /\ ranked = None
    /\ partials = None
    /\ other = initial_state
    /\ call = no_call
    /\ steps = 0
    /\ listed = 0
    /\ page = default_page
    /\ outcome = "running"

SuppliedNext ==
    \/ GetArticlesKept
    \/ GetArticlesFetched
    \/ GetArticlesFails
    \/ SelectArticle
    \/ SelectArticleNoMatch
    \/ SelectArticleFails
    \/ FetchContent
    \/ FetchContentFails
    \/ SummarizeContent /\ Val(new_team_info') \in OrderOutputs
    \/ SummarizeContentFails
    \/ CombineTeamInfo

SuppliedSpec == SuppliedInit /\ [][SuppliedNext]_vars

---------------------------------------------------------------------------
(* The graph run on one article, whose page and max_length vary *)

\* every text of at most n characters out of a letter, a space and a newline
RECURSIVE TextsUpTo(_)
TextsUpTo(n) ==
    IF n = 0 THEN {""}
    ELSE LET shorter == TextsUpTo(n - 1)
         IN  shorter \cup {t \o c : t \in shorter, c \in {"a", " ", "\n"}}

\* texts with lines the boilerplate patterns are written for, and lines that
\* come close
BoilerplateTexts ==
    {"Advertisement\nab", "ab\nADVERTISEMENT\n\n\n\ncd", "Advertisement",
     "Share this article on X\nab", "share this article", "a\nShare this article\n",
     "Follow us on Twitter @nfl\nab", "Follow us\non Twitter\nab",
     "ESPN+ members: subscribe now\nab", "subscribe to ESPN+\nab",
     "Follow on Twitter\nFollow a on Twitter b\n  ab  cd"}

\* what trafilatura.extract may answer: None or a text
Extractions ==
    {None} \cup {Some(text) : text \in TextsUpTo(MaxTextLen) \cup BoilerplateTexts}

Pages == [extracted : Extractions, max_length : 0..MaxLimit \cup {DEFAULT_MAX_LENGTH}]

FetchInit ==
    /\ node = "get_articles"
    /\ team_info = None
    /\ articles = None
    /\ selected_article = None
    /\ article_content = None
    /\ new_team_info = None
    /\ articles_read_count = 0
    /\ fetched = [i \in ArticleIds |-> 0]
    /\ summarized = [i \in ArticleIds |-> 0]
    /\ repeated_fact = FALSE
    /\ ranked = None
    /\ partials = None
    /\ other = initial_state
    /\ call = no_call
    /\ steps = 0
    /\ listed = 0
    /\ page \in Pages
    /\ outcome = "running"

FetchNext ==
    \/ GetArticlesKept
    \/ GetArticlesFetched /\ articles' = Some(DescPool(1))
    \/ GetArticlesFails
    \/ SelectArticle
    \/ SelectArticleNoMatch
    \/ SelectArticleFails
    \/ FetchContent
    \/ FetchContentFails
    \/ SummarizeContent /\ Val(new_team_info') \in OrderOutputs
    \/ SummarizeContentFails
    \/ CombineTeamInfo

FetchSpec == FetchInit /\ [][FetchNext]_vars

---------------------------------------------------------------------------
(* node_combine_team_info called directly on a hand-built state, as the tests
   of tests/tools/test_article_fetcher.py do, and called again on its result *)

MergeNames == {"Eagles", "Birds", ""}

MergeSummaries == {None, Some(""), Some("Great offense"), Some("Great")}

MergeInjuries ==
    {None, Some(<<>>), Some(<<"A">>), Some(<<"A", "B">>), Some(<<"B", "C">>),
     Some(<<"B", "B">>), Some(<<"b">>)}

MergeProfiles ==
    {TeamInfo(n, cs, inj, st, pa, rp) :
        n \in MergeNames, cs \in MergeSummaries, inj \in MergeInjuries,
        st \in {None, Some(<<"Offense">>)},
        pa \in {None, Some(<<"Defense">>)},
        rp \in {None, Some(<<"QB1">>)}}

MergeInit ==
    /\ node = "combine_team_info"
    /\ team_info \in {None} \cup {Some(p) : p \in MergeProfiles}
    /\ new_team_info \in {Some(q) : q \in MergeProfiles}
    /\ articles = None
    /\ selected_article = None
    /\ article_content = None
    /\ articles_read_count = 0
    /\ fetched = [i \in ArticleIds |-> 0]
    /\ summarized = [i \in ArticleIds |-> 0]
    /\ repeated_fact = FALSE
    /\ ranked = None
    /\ partials = None
    /\ other = initial_state
    /\ call = no_call
    /\ steps = 0
    /\ listed = 0
    /\ page = default_page
    /\ outcome = "running"

\* result = combine_team_info(state), the result put back into the state
CombineCall ==
    /\ articles_read_count < MaxReapply
    /\ CombineUpdate
    /\ UNCHANGED <<node, articles, selected_article, article_content, new_team_info,
                   fetched, summarized, repeated_fact, ranked, partials, outside, call, steps,
                   listed, outcome>>

MergeNext == CombineCall

MergeSpec == MergeInit /\ [][MergeNext]_vars

---------------------------------------------------------------------------
(* search_nfl on a source of MIN_ARTICLES_TO_READ + 1 articles, every result
   of the summariser recorded in order *)

OrderInit ==
    /\ node = "get_articles"
    /\ team_info = None
    /\ articles = None
    /\ selected_article = None
    /\ article_content = None
    /\ new_team_info = None
    /\ articles_read_count = 0
    /\ fetched = [i \in ArticleIds |-> 0]
    /\ summarized = [i \in ArticleIds |-> 0]
    /\ repeated_fact = FALSE
    /\ ranked = None
    /\ partials = Some(<<>>)
    /\ other = initial_state
    /\ call = no_call
    /\ steps = 0
    /\ listed = 0
    /\ page = default_page
    /\ outcome = "running"

\* the steps of the graph, the source and the summariser answering as above
OrderNext ==
    \/ GetArticlesKept
    \/ GetArticlesFetched /\ articles' = Some(DescPool(MIN_ARTICLES_TO_READ + 1))
    \/ GetArticlesFails
    \/ SelectArticle
    \/ SelectArticleNoMatch
    \/ SelectArticleFails
    \/ FetchContent
    \/ FetchContentFails
    \/ SummarizeContent /\ Val(new_team_info') \in OrderOutputs
    \/ SummarizeContentFails
    \/ CombineTeamInfo

OrderSpec == OrderInit /\ [][OrderNext]_vars

---------------------------------------------------------------------------
(* Two invocations of search_nfl on the one compiled graph
   _team_article_query_graph, for the two teams of a matchup, their nodes
   interleaved. The first invocation is the state above; the second is the
   record other, stepped by the same node functions. Each team has its own
   article list and its own summaries. *)

\* client.search_nfl(team_id).articles for the team of invocation run
PairSource(run) ==
    IF run = 1 THEN DescPool(MIN_ARTICLES_TO_READ + 1)
    ELSE <<Article(MaxPool, "story"), Article(MaxPool - 1, "story")>>

\* the summariser's result for an article of the team of invocation run
PairSummary(run, article) ==
    IF run = 1
    THEN IF article.id = MIN_ARTICLES_TO_READ + 1
         THEN [NoFacts("Eagles") EXCEPT !.coaching_summary = Some("X")]
         ELSE IF article.id = MIN_ARTICLES_TO_READ
         THEN TeamInfo("Eagles", Some("Y"), Some(<<"A">>), Some(<<"Offense">>),
                       Some(<<"Defense">>), Some(<<"QB1">>))
         ELSE NoFacts("Eagles")
    ELSE IF article.id = MaxPool
         THEN [NoFacts("Birds") EXCEPT !.injuries = Some(<<"A", "B">>)]
         ELSE NoFacts("Birds")

PairInit ==
    /\ node = "get_articles"
    /\ team_info = None
    /\ articles = None
    /\ selected_article = None
    /\ article_content = None
    /\ new_team_info = None
    /\ articles_read_count = 0
    /\ fetched = [i \in ArticleIds |-> 0]
    /\ summarized = [i \in ArticleIds |-> 0]
    /\ repeated_fact = FALSE
    /\ ranked = None
    /\ partials = Some(<<>>)
    /\ other = initial_state
    /\ call = no_call
    /\ steps = 0
    /\ listed = 0
    /\ page = default_page
    /\ outcome = "running"

\* the state of the first invocation
own ==
    <<node, team_info, articles, selected_article, article_content, new_team_info,
      articles_read_count, fetched, summarized, repeated_fact, ranked, partials, call,
      steps, listed, page, outcome>>

\* an exception leaves the node and the second graph.invoke
OtherRaise(what) == other' = [other EXCEPT !.node = "ERROR", !.outcome = what]

\* node_get_list_of_articles of the second invocation
OtherGetArticles ==
    /\ other.node = "get_articles"
    /\ \/ other' = [other EXCEPT
                       !.articles = IF @ # None THEN @ ELSE Some(PairSource(2)),
                       !.node = "select_article"]
       \/ other.articles = None /\ OtherRaise("source_error")
    /\ UNCHANGED own

\* faulty variant: the graph keeps one candidate list for all its invocations
OtherSelectArticle_from_shared_pool ==
    /\ other.node = "select_article"
    /\ articles # None
    /\ Len(Val(articles)) > 0
    /\ other' = [other EXCEPT !.selected_article = Some(Val(articles)[1]),
                              !.node = "fetch_content"]
    /\ articles' = Some(remaining_articles(Val(articles), Val(articles)[1]))
    /\ UNCHANGED <<node, team_info, selected_article, article_content, new_team_info,
                   articles_read_count, fetched, summarized, repeated_fact, ranked,
                   partials, call, steps, listed, page, outcome>>

\* node_get_article_relevance of the second invocation, then should_fetch_article
OtherSelectArticle ==
    /\ other.node = "select_article"
    /\ \/ \E article_id \in RankerAnswers(Val(other.articles)) :
            LET result == select_relevant_article(Val(other.articles), article_id)
            IN  IF result[1] = "raise" THEN OtherRaise(result[2])
                ELSE other' = [other EXCEPT
                        !.selected_article = result[2],
                        !.articles = IF result[2] # None
                                     THEN Some(remaining_articles(Val(@), Val(result[2])))
                                     ELSE @,
                        !.node = IF should_fetch_article(result[2]) = "skip"
                                 THEN "END" ELSE "fetch_content",
                        !.outcome = IF should_fetch_article(result[2]) = "skip"
                                    THEN "returned" ELSE @]
       \/ OtherRaise("ranker_error")
    /\ UNCHANGED own

\* node_fetch_article_content of the second invocation
OtherFetchContent ==
    /\ other.node = "fetch_content"
    /\ \/ \E content \in ArticleTexts :
            other' = [other EXCEPT !.article_content = Some(content),
                                   !.node = "summarize_content"]
       \/ OtherRaise("fetch_error")
    /\ UNCHANGED own

\* node_summarize_article_content of the second invocation
OtherSummarizeContent ==
    /\ other.node = "summarize_content"
    /\ \/ LET result == PairSummary(2, Val(other.selected_article))
          IN  other' = [other EXCEPT !.new_team_info = Some(result),
                                     !.partials = Append(@, result),
                                     !.node = "combine_team_info"]
       \/ OtherRaise("extract_error")
    /\ UNCHANGED own

\* node_combine_team_info of the second invocation, then should_continue
OtherCombineTeamInfo ==
    /\ other.node = "combine_team_info"
    /\ LET combined == combine_team_info_logic(other.team_info, Val(other.new_team_info))
           count == other.articles_read_count + 1
       IN  other' = [other EXCEPT
                       !.team_info = Some(combined),
                       !.articles_read_count = count,
                       !.node = IF should_continue(count, Some(combined)) = "continue"
                                THEN "get_articles" ELSE "END",
                       !.outcome = IF should_continue(count, Some(combined)) = "continue"
                                   THEN @ ELSE "returned"]
    /\ UNCHANGED own

PairNext ==
    \/ GetArticlesKept
    \/ GetArticlesFetched /\ articles' = Some(PairSource(1))
    \/ GetArticlesFails
    \/ SelectArticle
    \/ SelectArticleNoMatch
    \/ SelectArticleFails
    \/ FetchContent
    \/ FetchContentFails
    \/ SummarizeContent /\ new_team_info' = Some(PairSummary(1, Val(selected_article)))
    \/ SummarizeContentFails
    \/ CombineTeamInfo
    \/ OtherGetArticles
    \/ OtherSelectArticle
    \/ OtherFetchContent
    \/ OtherSummarizeContent
    \/ OtherCombineTeamInfo

PairSpec == PairInit /\ [][PairNext]_vars

---------------------------------------------------------------------------
(* Vocabulary of the properties *)

\* an Optional list / str read as a list / str, None counting as empty
AsList(o) == IF o = None THEN <<>> ELSE Val(o)

AsText(o) == IF o = None THEN "" ELSE Val(o)

Range(list) == {list[i] : i \in 1..Len(list)}

IsPrefix(a, b) == Len(a) <= Len(b) /\ (Len(a) = 0 \/ SubSeq(b, 1, Len(a)) = a)

NoDuplicates(list) ==
    \A i \in 1..Len(list) : \A j \in 1..Len(list) : i # j => list[i] # list[j]

Absent(o) == o = None \/ Len(Val(o)) = 0

PoolIds == IF articles = None THEN {} ELSE {Val(articles)[k].id : k \in 1..Len(Val(articles))}

Complete(info) ==
    /\ info # None
    /\ ~Absent(Val(info).coaching_summary)
    /\ \A f \in ListFields : ~Absent(Val(info)[f])

---------------------------------------------------------------------------
(* C1. Merge idempotence: merging the partial profile Q into merge(P, Q)
   again leaves every field as it is, merge(merge(P, Q), Q) = merge(P, Q).
   In MergeSpec the first call gives merge(P, Q) and every later call merges
   the same Q into the result. *)
C1_MergeIdempotent ==
    [][articles_read_count >= 1 => team_info' = team_info]_vars

(* C1, as the code has it: merging Q again leaves the four list fields as
   they are; it leaves a text field (coaching_summary, name) as it is when
   Q's text is absent or empty or equals the field (which is so when P's text
   was absent, empty or equal to Q's), and otherwise, the first merge having
   concatenated P's and Q's texts, appends "\n\n" and Q's text once more. *)
C1_RemergeAppendsOnlyText ==
    [][articles_read_count >= 1 =>
          /\ \A f \in ListFields : Val(team_info')[f] = Val(team_info)[f]
          /\ \A f \in StrFields :
                LET res == model_dump(Val(team_info))[f]
                    new == model_dump(Val(new_team_info))[f]
                    again == model_dump(Val(team_info'))[f]
                IN  IF Absent(new) \/ res = new
                    THEN again = res
                    ELSE again = Some(Val(res) \o "\n\n" \o Val(new))]_vars

\* Q merged twice into P: [B, C] added nothing the second time, "Great" was
\* appended to "Great offense" both times
C1_Witness ==
    /\ articles_read_count = 2
    /\ Val(new_team_info).injuries = Some(<<"B", "C">>)
    /\ Val(team_info).injuries = Some(<<"A", "B", "C">>)
    /\ Val(new_team_info).coaching_summary = Some("Great")
    /\ Val(team_info).coaching_summary = Some("Great offense\n\nGreat\n\nGreat")

(* C2. Name immutability: once the accumulated profile exists, no step of a
   run changes its name. *)
C2_NameNeverChanges ==
    [][team_info # None =>
          team_info' # None /\ Val(team_info').name = Val(team_info).name]_vars

(* C3. The accumulated profile only grows: over every step of a run each list
   field before the step is a prefix of it after the step, the
   coaching_summary before is a prefix of the coaching_summary after, and a
   field that is present stays present. *)
C3_ProfileOnlyGrows ==
    [][team_info # None =>
          /\ team_info' # None
          /\ \A f \in ListFields \cup {"coaching_summary"} :
                Val(team_info)[f] # None => Val(team_info')[f] # None
          /\ \A f \in ListFields :
                IsPrefix(AsList(Val(team_info)[f]), AsList(Val(team_info')[f]))
          /\ IsPrefix(AsText(Val(team_info).coaching_summary),
                      AsText(Val(team_info').coaching_summary))]_vars

\* three merges have run; the last appended to the summary and to injuries
C3_Witness ==
    /\ articles_read_count = 3
    /\ team_info # None
    /\ Val(team_info).coaching_summary = Some("X\n\nY")
    /\ Val(team_info).injuries = Some(<<"B", "B", "A">>)

(* C4. List fields are ordered sets: in every reachable state no list field
   of the accumulated profile holds the same string twice. *)
C4_ListsHaveNoDuplicates ==
    team_info # None => \A f \in ListFields : NoDuplicates(AsList(Val(team_info)[f]))

(* C4, as the code has it: in every reachable state of a run in which the
   extractor has returned no list that holds a string twice, no list field of
   the accumulated profile holds a string twice. *)
C4_NoDuplicatesFromUniqueFacts ==
    (team_info # None /\ ~repeated_fact)
        => \A f \in ListFields : NoDuplicates(AsList(Val(team_info)[f]))

\* [A] and then [A, B] were merged: A was not added a second time
C4_Witness ==
    /\ articles_read_count = 2
    /\ ~repeated_fact
    /\ Val(new_team_info).injuries = Some(<<"A", "B">>)
    /\ Val(team_info).injuries = Some(<<"A", "B">>)
    /\ Val(team_info).coaching_summary = Some("Y")

(* C5. Order-preserving list merge: when the old and the new value of a list
   field are both non-empty, the merged list is the old list followed by the
   items of the new list that equal no item of the old list, in the new
   list's order. *)
C5_ListMergeKeepsOrder ==
    [][\A f \in ListFields :
          (team_info # None /\ ~Absent(Val(team_info)[f]) /\ ~Absent(Val(new_team_info)[f]))
          => LET old == Val(Val(team_info)[f])
                 new == Val(Val(new_team_info)[f])
             IN  Val(team_info')[f] =
                     Some(old \o SelectSeq(new, LAMBDA item : item \notin Range(old)))]_vars

\* [A, B] merged with [B, C] gave [A, B, C]
C5_Witness ==
    /\ articles_read_count = 1
    /\ Val(new_team_info).injuries = Some(<<"B", "C">>)
    /\ Val(team_info).injuries = Some(<<"A", "B", "C">>)

(* C6. Narrative concatenation: when the old and the new coaching_summary are
   both non-empty, the merged one is old + "\n\n" + new if the two differ and
   the old one if they are equal; a new string that is a proper substring of
   the old one differs from it and is appended. *)
C6_SummaryConcatenation ==
    [][(team_info # None /\ ~Absent(Val(team_info).coaching_summary)
                         /\ ~Absent(Val(new_team_info).coaching_summary))
       => LET old == Val(Val(team_info).coaching_summary)
              new == Val(Val(new_team_info).coaching_summary)
          IN  /\ old # new => Val(team_info').coaching_summary = Some(old \o "\n\n" \o new)
              /\ old = new => Val(team_info').coaching_summary = Some(old)]_vars

\* "Great" was appended to "Great offense"
C6_Witness ==
    /\ articles_read_count = 1
    /\ Val(new_team_info).coaching_summary = Some("Great")
    /\ Val(team_info).coaching_summary = Some("Great offense\n\nGreat")

(* C7. First-merge passthrough: when no accumulated profile exists, the merge
   step makes the partial profile the accumulated profile, field for field. *)
C7_FirstMergePassthrough ==
    [][(node = "combine_team_info" /\ team_info = None) => team_info' = new_team_info]_vars

\* the first merge of a run has passed an empty list through as it is
C7_Witness ==
    /\ articles_read_count = 1
    /\ team_info = new_team_info
    /\ Val(team_info).injuries = Some(<<>>)

(* C8. Empty-side rule, per field, when an accumulated profile exists: a new
   value that is absent or empty leaves the field exactly as it was (None
   stays None, empty stays empty); a non-empty new value over an absent or
   empty old one becomes the field's value. *)
C8_EmptySideRule ==
    [][team_info # None =>
          \A key \in Fields :
              LET old == model_dump(Val(team_info))[key]
                  new == model_dump(Val(new_team_info))[key]
                  res == model_dump(Val(team_info'))[key]
              IN  /\ Absent(new) => res = old
                  /\ (~Absent(new) /\ Absent(old)) => res = new]_vars

\* one call: injuries absent in the new profile and kept, strengths adopted
\* over an absent old value, the empty summary left empty by an empty new one
C8_Witness ==
    /\ articles_read_count = 1
    /\ Val(new_team_info).injuries = None
    /\ Val(team_info).injuries = Some(<<"A", "B">>)
    /\ Val(new_team_info).strengths = Some(<<"Offense">>)
    /\ Val(team_info).strengths = Some(<<"Offense">>)
    /\ Val(new_team_info).coaching_summary = Some("")
    /\ Val(team_info).coaching_summary = Some("")
    /\ Val(new_team_info).name = ""
    /\ Val(team_info).name = "Eagles"

(* C9. No double-processing: no article id is passed to the content fetcher
   or to the fact extractor more than once, and no article carrying the id of
   a selected article is left in the candidate pool. *)
C9_NoDoubleProcessing ==
    /\ \A i \in ArticleIds : fetched[i] <= 1 /\ summarized[i] <= 1
    /\ \A i \in ArticleIds : fetched[i] >= 1 => i \notin PoolIds
    /\ (selected_article # None => Val(selected_article).id \notin PoolIds)

\* the list held article 2 twice; it was selected and fetched, and only
\* article 1 is left
C9_Witness ==
    /\ articles_read_count = 0
    /\ fetched[2] = 1
    /\ selected_article = Some(Article(2, "story"))
    /\ articles = Some(<<Article(1, "story")>>)

(* C10. Minimum iterations: a run never ends through the stop check with
   fewer than MIN_ARTICLES_TO_READ articles read, also when the profile is
   already complete. *)
C10_NoStopBeforeMinimum ==
    node = "END" => articles_read_count >= MIN_ARTICLES_TO_READ

\* complete after three articles, and the loop went on
C10_Witness ==
    /\ articles_read_count = 3
    /\ Complete(team_info)
    /\ node = "get_articles"

(* C11. Cap boundary: a run whose accumulated profile is not complete (a
   non-empty coaching_summary and four non-empty lists) ends through the
   stop check only when articles_read_count has become
   MAX_ARTICLES_TO_READ + 1, at no count from MIN_ARTICLES_TO_READ to
   MAX_ARTICLES_TO_READ, and the count never passes that value. *)
C11_StopsExactlyPastCap ==
    /\ articles_read_count <= MAX_ARTICLES_TO_READ + 1
    /\ (node = "END" /\ ~Complete(team_info)
            => articles_read_count = MAX_ARTICLES_TO_READ + 1)

(* C12. Completeness criterion: with MIN_ARTICLES_TO_READ <= count <=
   MAX_ARTICLES_TO_READ the stop check answers "end" exactly when the
   accumulated profile has a coaching_summary that is neither None nor ""
   and four non-empty lists, and "continue" otherwise. *)
C12_EndIffComplete ==
    articles_read_count \in MIN_ARTICLES_TO_READ..MAX_ARTICLES_TO_READ
        => (should_continue(articles_read_count, team_info) = "end"
                <=> Complete(team_info))

(* C13. A single bad article does not stop the run: a failure of
   fetch_article_content or of summarize_article_content for the selected
   article never ends the invocation with that error; the step leaves the
   accumulated profile as it is, counts the iteration and goes on to the
   stop check. *)
C13_BadArticleDoesNotAbort ==
    [][(node \in {"fetch_content", "summarize_content"}) =>
           (\/ node' \in {"summarize_content", "combine_team_info"}
            \/ /\ node' \in {"get_articles", "END"}
               /\ team_info' = team_info
               /\ articles_read_count' = articles_read_count + 1)]_vars

(* C14. Selector contract violation surfaces: when the relevance model
   answers an id that no article of the candidate pool carries, the
   invocation ends with an error: no article is selected in its place, the
   pool, the profile and the count stay as they are, nothing is fetched or
   summarised, and no step follows the error (the model is not asked
   again). *)
C14_UnmatchedAnswerFailsTheRun ==
    /\ [][(node = "select_article" /\ ranked' # None /\ Val(ranked') \notin PoolIds) =>
             (/\ node' = "ERROR"
              /\ outcome' \notin {"running", "returned"}
              /\ UNCHANGED <<team_info, articles, selected_article, article_content,
                             new_team_info, articles_read_count, fetched, summarized>>)]_vars
    /\ [][node # "ERROR"]_vars

\* one article read, candidates left, and the model answered an unknown id
C14_Witness ==
    /\ node = "ERROR"
    /\ outcome = "StopIteration"
    /\ ranked = Some(UnknownId)
    /\ articles_read_count = 1
    /\ Len(Val(articles)) > 0

(* C15. Empty candidate set: when node_get_article_relevance runs on an
   empty candidate list, the relevance model is not asked, no article is
   selected (None), and the graph goes straight to END: nothing is fetched,
   summarised or merged. *)
C15_EmptyPoolEndsWithoutRanking ==
    [][(node = "select_article" /\ articles = Some(<<>>)) =>
          (/\ node' = "END"
           /\ selected_article' = None
           /\ ranked' = ranked
           /\ UNCHANGED <<team_info, articles_read_count, fetched, summarized>>)]_vars

\* the invocation is over, otherwise than by a failed call of the relevance
\* model, of the fetch or of the summariser
EndedWithoutCallFailure ==
    /\ node \in {"END", "ERROR"}
    /\ outcome \notin {"source_error", "ranker_error", "fetch_error", "ValueError",
                       "extract_error"}

(* C16. Exhaustion ends the run normally: a run that has read every
   candidate while the stop check still answers "continue" ends by
   returning the accumulated profile, not by an error. *)
C16_ExhaustionReturnsProfile ==
    (/\ EndedWithoutCallFailure
     /\ articles = Some(<<>>)
     /\ articles_read_count >= 1
     /\ should_continue(articles_read_count, team_info) = "continue")
        => outcome = "returned" /\ team_info # None

(* C17. Per-run failures are never silent: an invocation whose article
   source raised, or gave an empty list, ends with an error; an invocation
   that returns has a profile (team_info is not None) built from at least
   one article. *)
C17_NoSilentFailure ==
    /\ [](outcome = "returned" =>
            /\ team_info # None
            /\ articles_read_count >= 1
            /\ \E i \in ArticleIds : summarized[i] >= 1)
    /\ [](outcome = "source_error" => node = "ERROR" /\ articles = None)
    /\ [][(node = "select_article" /\ articles = Some(<<>>) /\ articles_read_count = 0)
             => node' = "ERROR" /\ outcome' \notin {"running", "returned"}]_vars

\* the source gave no article, and the invocation ended with an error
C17_Witness ==
    /\ node = "ERROR"
    /\ outcome = "StopIteration"
    /\ articles = Some(<<>>)
    /\ articles_read_count = 0
    /\ team_info = None

(* C18. articles_read_count is changed by node_combine_team_info only, which
   adds exactly 1 whatever the merge gives (first merge, nothing new, new
   facts); every other node leaves it as it is, so it never decreases. *)
C18_CountChangedOnlyByMerge ==
    [][IF node = "combine_team_info"
       THEN articles_read_count' = articles_read_count + 1
       ELSE articles_read_count' = articles_read_count]_vars

\* the second article reported nothing, was merged and was counted
C18_Witness ==
    /\ articles_read_count = 2
    /\ node = "get_articles"
    /\ new_team_info = Some(NoFacts("Eagles"))
    /\ team_info = Some([NoFacts("Eagles") EXCEPT !.coaching_summary = Some("X")])

\* the merge folded from the left over a sequence of partial profiles,
\* starting from no profile
RECURSIVE FoldPartials(_)
FoldPartials(seq) ==
    IF Len(seq) = 0 THEN None
    ELSE Some(combine_team_info_logic(FoldPartials(SubSeq(seq, 1, Len(seq) - 1)),
                                      seq[Len(seq)]))

\* the nodes that may run after a node
NextNodes(n) ==
    CASE n = "get_articles" -> {"select_article", "ERROR"}
      [] n = "select_article" -> {"fetch_content", "END", "ERROR"}
      [] n = "fetch_content" -> {"summarize_content", "ERROR"}
      [] n = "summarize_content" -> {"combine_team_info", "ERROR"}
      [] n = "combine_team_info" -> {"get_articles", "END"}
      [] OTHER -> {}

(* C19. Strict arrival order: an iteration runs select, fetch, summarise and
   merge in that order and is over before the next selection; a selected
   article stays the selected one until then. At every point of a run, and
   so when it returns, the accumulated profile is the left fold of the merge
   over the summariser's results so far, in the order they were produced,
   starting from no profile: each result is merged exactly once, by the merge
   step that follows it. *)
C19_ProfileIsLeftFold ==
    /\ [](/\ Len(Val(partials)) =
                articles_read_count + (IF node = "combine_team_info" THEN 1 ELSE 0)
          /\ team_info = FoldPartials(SubSeq(Val(partials), 1, articles_read_count))
          /\ (node = "combine_team_info"
                 => new_team_info = Some(Val(partials)[Len(Val(partials))])))
    /\ [][/\ node' \in NextNodes(node)
          /\ (node # "select_article" => selected_article' = selected_article)]_vars

\* a summary, then every kind of fact, then three articles with nothing:
\* the run returned the profile merged in that order
C19_Witness ==
    /\ node = "END"
    /\ outcome = "returned"
    /\ Len(Val(partials)) = MIN_ARTICLES_TO_READ
    /\ Val(partials)[1].coaching_summary = Some("X")
    /\ Val(partials)[2].coaching_summary = Some("Y")
    /\ Val(team_info).coaching_summary = Some("X\n\nY")

\* the state of an invocation holds only what its own team's article list
\* and summaries gave it, merged in order: what the invocation holds when it
\* runs alone on the same answers
OwnAnswersOnly(run, nd, info, pool, selected, count, parts) ==
    /\ Len(parts) = count + (IF nd = "combine_team_info" THEN 1 ELSE 0)
    /\ info = FoldPartials(SubSeq(parts, 1, count))
    /\ \A k \in 1..Len(parts) :
           \E a \in Range(PairSource(run)) : parts[k] = PairSummary(run, a)
    /\ pool # None => Range(Val(pool)) \subseteq Range(PairSource(run))
    /\ selected # None => Val(selected) \in Range(PairSource(run))

(* C20. Independent runs do not interfere: with the nodes of two
   invocations interleaved in any order, a step of one invocation changes
   nothing of the other's state, and the candidate pool, selected article,
   profile and count of each are made of its own team's answers only, the
   profile being the merge of its own summaries in order, as when the
   invocation runs alone. *)
C20_RunsDoNotInterfere ==
    /\ [](/\ OwnAnswersOnly(1, node, team_info, articles, selected_article,
                             articles_read_count, Val(partials))
          /\ OwnAnswersOnly(2, other.node, other.team_info, other.articles,
                             other.selected_article, other.articles_read_count,
                             other.partials))
    /\ [][own' = own \/ other' = other]_vars

\* both invocations are over: the first returned its team's profile after
\* MIN_ARTICLES_TO_READ articles, the second read its team's two articles
C20_Witness ==
    /\ node = "END"
    /\ articles_read_count = MIN_ARTICLES_TO_READ
    /\ Val(team_info).name = "Eagles"
    /\ Val(team_info).coaching_summary = Some("X\n\nY")
    /\ other.node = "ERROR"
    /\ other.articles_read_count = 2
    /\ other.team_info = Some([NoFacts("Birds") EXCEPT !.injuries = Some(<<"A", "B">>)])

\* the calls counted by a history function, over all article ids
RECURSIVE TotalUpTo(_, _)
TotalUpTo(calls, n) == IF n = 0 THEN 0 ELSE calls[n] + TotalUpTo(calls, n - 1)

Total(calls) == TotalUpTo(calls, MaxPool)

(* C21. Hard cap: articles_read_count never exceeds
   MAX_ARTICLES_TO_READ + 1, and no more than that many articles are ever
   selected, fetched or summarised in a run, whatever the relevance model
   and the summariser answer and however many candidates there are. *)
C21_HardCap ==
    /\ articles_read_count <= MAX_ARTICLES_TO_READ + 1
    /\ Total(fetched) <= MAX_ARTICLES_TO_READ + 1
    /\ Total(summarized) <= MAX_ARTICLES_TO_READ + 1
    /\ (node \in {"fetch_content", "summarize_content", "combine_team_info"}
           => articles_read_count <= MAX_ARTICLES_TO_READ)

\* the cap ended a run that had candidates left
C21_Witness ==
    /\ node = "END"
    /\ articles_read_count = MAX_ARTICLES_TO_READ + 1
    /\ Total(summarized) = MAX_ARTICLES_TO_READ + 1
    /\ Len(Val(articles)) > 0

(* C22. Retry cap on rate limiting: a call of select_relevant_article or of
   summarize_article_content makes at most stop_max_attempt_number attempts;
   it waits and tries again only after a rate-limited attempt that was not
   the last allowed one, an attempt that succeeds ends the call with its
   result, and after the last allowed attempt was rate-limited the call
   raises and no step follows. *)
C22_AtMostFiveAttempts ==
    /\ [](/\ call.attempt_number <= stop_max_attempt_number
          /\ (call.waiting => /\ call.attempt_number < stop_max_attempt_number
                              /\ Len(call.sleeps) = call.attempt_number
                              /\ node \in {"select_article", "summarize_content"})
          /\ (outcome = "RetryError" =>
                 /\ node = "ERROR"
                 /\ ~call.waiting
                 /\ call.attempt_number = stop_max_attempt_number
                 /\ Len(call.sleeps) = stop_max_attempt_number - 1))
    /\ [][/\ (call.waiting /\ call' # call)
               => call'.attempt_number = call.attempt_number + 1
          /\ (call.waiting /\ ~call'.waiting /\ node' # "ERROR")
               => /\ node' \in {"fetch_content", "combine_team_info"}
                  /\ (node = "select_article" => selected_article' # None)
                  /\ (node = "summarize_content" => new_team_info' # None)
          /\ outcome # "RetryError"]_vars

\* the summariser was rate-limited five times for the second article
C22_Witness ==
    /\ outcome = "RetryError"
    /\ articles_read_count = 1
    /\ new_team_info # None
    /\ Total(summarized) = 2
    /\ call.attempt_number = stop_max_attempt_number

(* C23. Backoff schedule, as claimed: the waits of a rate-limited call are
   1, 2, 4, 8 seconds before attempts 2, 3, 4, 5, and none exceeds
   wait_max. *)
C23_WaitsOneTwoFourEight ==
    /\ IsPrefix(call.sleeps, <<1, 2, 4, 8>>)
    /\ \A k \in 1..Len(call.sleeps) : call.sleeps[k] <= wait_max

(* C23, amended. The wait before attempt k + 1 is
   max(wait_min, min(wait_multiplier * 2^(k - 1), wait_max)): 2, 2, 4, 8
   seconds before attempts 2, 3, 4, 5; no wait is below wait_min or above
   wait_max, whatever the attempt number. *)
C23_WaitsTwoTwoFourEight ==
    /\ IsPrefix(call.sleeps, <<2, 2, 4, 8>>)
    /\ \A a \in 1..MaxWaitAttempt :
           /\ wait_exponential(a) >= wait_min
           /\ wait_exponential(a) <= wait_max
           /\ (a > 1 /\ Pow2(a - 1) <= wait_max => wait_exponential(a) = Pow2(a - 1))
           /\ (Pow2(a - 1) > wait_max => wait_exponential(a) = wait_max)

\* the relevance model was rate-limited four times in a row
C23_Witness ==
    /\ node = "select_article"
    /\ call.waiting
    /\ call.sleeps = <<2, 2, 4, 8>>

(* C26. Every run eventually terminates: with every call returning or
   raising and the graph running its next node, an invocation reaches END
   or ends with an error. *)
C26_EveryRunTerminates == <>(node \in {"END", "ERROR"})

\* the cap ended a run in which a model call had been rate-limited
C26_Witness ==
    /\ node = "END"
    /\ articles_read_count = MAX_ARTICLES_TO_READ + 1
    /\ call.attempt_number = stop_max_attempt_number - 1

(* C24. Atomic merge: a step either leaves the accumulated profile and
   articles_read_count as they are, or it is the merge step and replaces
   both together, the profile by the whole merge of the pending partial
   profile. Between steps the count is the number of partial profiles merged
   so far, and the profile is a whole TeamInfo: None before the first merge,
   every field present after it. *)
C24_MergeIsAtomic ==
    /\ [][\/ team_info' = team_info /\ articles_read_count' = articles_read_count
          \/ /\ node = "combine_team_info"
             /\ articles_read_count' = articles_read_count + 1
             /\ team_info' =
                    Some(combine_team_info_logic(team_info, Val(new_team_info)))]_vars
    /\ [](/\ articles_read_count =
                Len(Val(partials)) - (IF node = "combine_team_info" THEN 1 ELSE 0)
          /\ (team_info = None <=> articles_read_count = 0)
          /\ (team_info # None => DOMAIN Val(team_info) = Fields))

\* two articles merged, a third summarised and not yet merged
C24_Witness ==
    /\ node = "combine_team_info"
    /\ articles_read_count = 2
    /\ Len(Val(partials)) = 3
    /\ Val(team_info).coaching_summary = Some("Y\n\nX")
    /\ Val(new_team_info).coaching_summary = None

(* C25. The article list is requested from the source at most once per run:
   once state["articles"] is set, by the source or by the caller and also
   when it is empty, the source is not called again, the list step leaves
   the pool, the profile and articles_read_count as they are, and every
   step leaves in the pool only articles that were in it. *)
C25_ListedAtMostOnce ==
    /\ [](listed <= 1)
    /\ [][articles # None =>
             (/\ listed' = listed
              /\ articles' # None
              /\ Len(Val(articles')) <= Len(Val(articles))
              /\ Range(Val(articles')) \subseteq Range(Val(articles))
              /\ (node = "get_articles" =>
                     UNCHANGED <<articles, team_info, articles_read_count>>))]_vars

\* the caller's list, two articles read, the list step run three times and
\* the source never asked
C25_Witness ==
    /\ listed = 0
    /\ node = "select_article"
    /\ articles_read_count = 2
    /\ Len(Val(articles)) = MaxPool - 2

(* C27. Selection tie-break: the article the selector returns carries the id
   the relevance model answered, and among the candidates carrying that id
   it is the one that comes first in the list the selector was given. *)
C27_FirstInInputOrder ==
    [][(node = "select_article" /\ node' = "fetch_content") =>
         LET chosen == Val(selected_article')
             given == Val(articles)
         IN  /\ chosen.id = Val(ranked')
             /\ \E i \in 1..Len(given) :
                   /\ given[i] = chosen
                   /\ \A j \in 1..(i - 1) : given[j].id # chosen.id]_vars

\* the newest article is listed twice and the model answers its id: the
\* story listed first is selected, not its repost
C27_Witness ==
    /\ node = "fetch_content"
    /\ ranked = Some(2)
    /\ selected_article = Some(Article(2, "story"))
    /\ articles = Some(<<Article(1, "story")>>)
    /\ fetched[2] = 0
    /\ articles_read_count = 0

(* C28. Content truncation: with t the cleaned text of the page and
   max_length the limit, the fetch step stores t unchanged when
   Len(t) <= max_length and otherwise the first max_length characters of t
   followed by the truncation marker, so the content is determined by the
   text and the limit; when nothing was extracted from the page the step
   raises and stores no content. *)
C28_TruncatesAtMaxLength ==
    [][node = "fetch_content" =>
         IF page.extracted = None \/ Val(page.extracted) = ""
         THEN node' = "ERROR" /\ article_content' = article_content
         ELSE (node' = "summarize_content" =>
                 LET t == clean_article_text(Val(page.extracted))
                     content == Val(article_content')
                 IN  IF Len(t) <= page.max_length
                     THEN content = t
                     ELSE /\ Len(content) = page.max_length + Len(truncation_marker)
                          /\ SubSeq(content, 1, page.max_length)
                                 = SubSeq(t, 1, page.max_length)
                          /\ From(content, page.max_length + 1) = truncation_marker)]_vars

\* a text of three characters once cleaned, read with max_length = 2
C28_Witness ==
    /\ node = "summarize_content"
    /\ page = [extracted |-> Some("a  a"), max_length |-> 2]
    /\ article_content = Some("a " \o truncation_marker)

\* the nodes one iteration of the graph runs
IterationNodes ==
    {"get_articles", "select_article", "fetch_content", "summarize_content",
     "combine_team_info"}

(* C29. The budget of recursion_limit graph steps is never what ends a run:
   an iteration runs at most one step per node, a run has at most
   MAX_ARTICLES_TO_READ + 1 iterations, and the steps of a whole run stay
   below recursion_limit. *)
C29_BudgetNeverReached ==
    /\ steps <= Cardinality(IterationNodes) * (articles_read_count + 1)
    /\ steps <= Cardinality(IterationNodes) * (MAX_ARTICLES_TO_READ + 1)
    /\ steps < recursion_limit
    /\ (node \in IterationNodes /\ node # "get_articles"
           => articles_read_count <= MAX_ARTICLES_TO_READ)

\* the longest run: every iteration ran all its nodes and the cap ended it
C29_Witness ==
    /\ node = "END"
    /\ outcome = "returned"
    /\ steps = Cardinality(IterationNodes) * (MAX_ARTICLES_TO_READ + 1)

(* C30. An error discards the partial result: an invocation that ends by an
   exception raises it to the caller of search_nfl and returns nothing,
   however many merges came before, and is not resumed; the accumulated
   profile is returned only when the graph reaches END, through the stop
   check after a merge or through the skip edge of the selection. *)
C30_ErrorDiscardsPartialResult ==
    /\ [](node = "ERROR" => outcome \notin {"running", "returned"})
    /\ [](outcome = "returned" => node = "END")
    /\ [][node # "ERROR"]_vars
    /\ [][(outcome' = "returned" /\ outcome # "returned") =>
             (\/ /\ node = "combine_team_info"
                 /\ should_continue(articles_read_count', team_info') = "end"
              \/ /\ node = "select_article"
                 /\ should_fetch_article(selected_article') = "skip")]_vars

\* three articles were merged, the summariser failed on the fourth, and the
\* invocation raised
C30_Witness ==
    /\ node = "ERROR"
    /\ outcome = "extract_error"
    /\ articles_read_count = 3
    /\ team_info # None

====
